---- MODULE Spec2Model ----
(***************************************************************************)
(* Voice-note bot of src/main.py: the JSON record store (load_data,        *)
(* save_data and the operations built on them), the transcription and      *)
(* summarization stages, the listing, and the select/edit conversation.    *)
(*                                                                         *)
(* Updates are handled one at a time (Application.builder() keeps the      *)
(* default of sequential update processing), so a handler is one atomic    *)
(* action.  Text replies, query.answer() and edit_message_text are taken   *)
(* as reliable; the calls that move files (the voice download, the write   *)
(* of data.json, the write and the delivery of the report) can fail.       *)
(***************************************************************************)
EXTENDS Integers, Sequences, FiniteSets, TLC

VARIABLES
    file,                 \* content of DATA_FILE
    user_data,            \* context.user_data of every user
    conv,                 \* state of conv_handler for every user
    whisper_model,        \* module global whisper_model
    summarizer_pipeline,  \* module global summarizer_pipeline
    now,                  \* the wall clock read by datetime.now()
    last,                 \* what the last handled update did and answered
    task                  \* the handler in flight of every user, where
                          \* handlers are let to switch at their awaits

vars == <<file, user_data, conv, whisper_model, summarizer_pipeline, now, last, task>>

(***************************************************************************)
(* Bounds of the model                                                     *)
(***************************************************************************)
MaxRecs == 2        \* records written to the store in the conversation model
MaxTextLen == 103   \* longest text handed to the summarization stage
MaxListRecs == 11   \* longest record list handed to the listing

(***************************************************************************)
(* Program constants                                                       *)
(***************************************************************************)
ShortTextLimit == 50    \* summarize_text: len(text) < 50
TruncateLen == 100      \* summarize_text: text[:100], len(text) > 100
ListLimit == 10         \* create_document_button: [:10]
ButtonTextLen == 30     \* create_document_button: summary_text[:30]
FallbackLen == 30       \* length of the fallback sentence of transcribe_audio

None == "None"
Loaded == "Loaded"
END == "END"
EDITING_SUMMARY == "EDITING_SUMMARY"

Users == {7, 12}

Min(a, b) == IF a < b THEN a ELSE b

(***************************************************************************)
(* Texts are sequences of characters.                                      *)
(***************************************************************************)
Letters == <<"a", "b", "c">>

\* a text of n letters whose i-th letter depends on i (k shifts the pattern)
MkText(n, k) == [i \in 1..n |-> Letters[((i + k) % 3) + 1]]

\* text[:n]
Prefix(text, n) == SubSeq(text, 1, Min(n, Len(text)))

Marker == <<".", ".", ".">>

IsSpace(c) == c = " "

RECURSIVE LStrip(_)
LStrip(t) == IF t # <<>> /\ IsSpace(Head(t)) THEN LStrip(Tail(t)) ELSE t

RECURSIVE RStrip(_)
RStrip(t) ==
    IF t # <<>> /\ IsSpace(t[Len(t)]) THEN RStrip(SubSeq(t, 1, Len(t) - 1)) ELSE t

\* str.strip()
Strip(t) == RStrip(LStrip(t))

Digits == <<"0", "1", "2", "3", "4", "5", "6", "7", "8", "9">>

\* str(n) for n >= 0
RECURSIVE Str(_)
Str(n) == IF n < 10 THEN <<Digits[n + 1]>> ELSE Str(n \div 10) \o <<Digits[(n % 10) + 1]>>

DigitVal(c) == CHOOSE d \in 0..9 : Digits[d + 1] = c

\* int(s) for a string of digits
RECURSIVE ParseInt(_)
ParseInt(s) == IF s = <<>> THEN 0 ELSE 10 * ParseInt(SubSeq(s, 1, Len(s) - 1)) + DigitVal(s[Len(s)])

(***************************************************************************)
(* Model handles and the two stages                                        *)
(***************************************************************************)
\* load_models: every handle that is None is loaded again; a failure of the
\* whisper load skips the summarizer load of the same call.
load_models(w, s) ==
    LET ws == IF w = None THEN {None, Loaded} ELSE {w}
        ss == IF s = None THEN {None, Loaded} ELSE {s}
    IN  {<<w2, s2>> \in ws \X ss : (w = None /\ w2 = None) => s2 = s}

FallbackSentence == [i \in 1..FallbackLen |-> "f"]

\* what whisper hears in a voice note: nothing (silence), a short sentence,
\* a text between the two limits, a long text
Voices == {<<>>, MkText(3, 0), MkText(ShortTextLimit + 10, 1), MkText(TruncateLen + 20, 2)}

\* what the summarizer returns (min_length=30 keeps it non-empty)
Summaries == {<<"s", "u", "m">>}

\* transcribe_audio that goes on without a model
transcribe_audio_unloaded(heard, w, s) ==
    {[w |-> h[1], s |-> h[2], text |-> t] :
        h \in load_models(w, s), t \in {heard, FallbackSentence}}

\* transcribe_audio: the outcomes [w, s, text]; heard is what the model
\* returns when it is loaded and does not fail
transcribe_audio(heard, w, s) ==
    UNION {
        IF h[1] = None
        THEN {[w |-> h[1], s |-> h[2], text |-> FallbackSentence]}
        ELSE {[w |-> h[1], s |-> h[2], text |-> t] : t \in {heard, FallbackSentence}}
      : h \in load_models(w, s)}

\* the except branch without the marker
summarize_fallback_no_marker(text) == Prefix(text, TruncateLen)

\* the except branch of summarize_text
summarize_fallback(text) ==
    IF Len(text) > TruncateLen THEN Prefix(text, TruncateLen) \o Marker ELSE text

\* summarize_text without the return for short texts
summarize_text_no_short(text, w, s) ==
    UNION {
        IF h[2] = None
        THEN {[w |-> h[1], s |-> h[2], text |-> summarize_fallback(text),
               invoked |-> FALSE, failed |-> TRUE]}
        ELSE {[w |-> h[1], s |-> h[2], text |-> sm, invoked |-> TRUE, failed |-> FALSE]
                 : sm \in Summaries}
             \cup {[w |-> h[1], s |-> h[2], text |-> summarize_fallback(text),
                    invoked |-> TRUE, failed |-> TRUE]}
      : h \in load_models(w, s)}

\* summarize_text: the outcomes [w, s, text, invoked, failed]; invoked tells
\* whether the summarizer pipeline was called, failed whether the except
\* branch was taken
summarize_text(text, w, s) ==
    UNION {
        IF Len(text) < ShortTextLimit
        THEN {[w |-> h[1], s |-> h[2], text |-> text, invoked |-> FALSE, failed |-> FALSE]}
        ELSE IF h[2] = None
        THEN {[w |-> h[1], s |-> h[2], text |-> summarize_fallback(text),
               invoked |-> FALSE, failed |-> TRUE]}
        ELSE {[w |-> h[1], s |-> h[2], text |-> sm, invoked |-> TRUE, failed |-> FALSE]
                 : sm \in Summaries}
             \cup {[w |-> h[1], s |-> h[2], text |-> summarize_fallback(text),
                    invoked |-> TRUE, failed |-> TRUE]}
      : h \in load_models(w, s)}

(***************************************************************************)
(* The wall clock.  A time is [sec, us]; datetime.now().timestamp() gives  *)
(* the seconds, isoformat() leaves the microseconds out when they are 0,   *)
(* and the listing compares the isoformat strings.                         *)
(***************************************************************************)
Times == [sec : {1, 2}, us : {0, 1}]

TimeLeq(t1, t2) == t1.sec < t2.sec \/ (t1.sec = t2.sec /\ t1.us <= t2.us)

\* int(datetime.now().timestamp())
timestamp_id(t) == t.sec

\* datetime.isoformat(): the fixed-width fields of the string
isoformat(t) == IF t.us = 0 THEN <<t.sec>> ELSE <<t.sec, t.us>>

\* s1 < s2 for two isoformat strings (Python compares strings position by
\* position, a proper prefix is the smaller one)
RECURSIVE StrLess(_, _)
StrLess(s1, s2) ==
    IF s2 = <<>> THEN FALSE
    ELSE IF s1 = <<>> THEN TRUE
    ELSE IF Head(s1) # Head(s2) THEN Head(s1) < Head(s2)
    ELSE StrLess(Tail(s1), Tail(s2))

(***************************************************************************)
(* The record store.  DATA_FILE is absent, holds bytes that are not UTF-8  *)
(* (bytes_bad), holds text that is not JSON (text_bad), or holds JSON      *)
(* (json) written with indent=2 by save_data or in another layout by       *)
(* someone else.  A JSON value is the store {"users": {...}} or another    *)
(* value; the users are keyed by str(tg_user_id).                          *)
(***************************************************************************)
NoUsers == <<>>

EmptyStore == [shape |-> "store", users |-> NoUsers]

OtherJson == [shape |-> "other", users |-> NoUsers]

AbsentFile == [kind |-> "absent", fmt |-> "none", data |-> OtherJson]

BytesBadFile == [kind |-> "bytes_bad", fmt |-> "none", data |-> OtherJson]

TextBadFile == [kind |-> "text_bad", fmt |-> "none", data |-> OtherJson]

JsonFile(fmt, data) == [kind |-> "json", fmt |-> fmt, data |-> data]

Username(u) == <<"u">> \o Str(u)

\* load_data: [raised, data]
load_data(f) ==
    IF f.kind = "absent" THEN [raised |-> FALSE, data |-> EmptyStore]
    ELSE IF f.kind = "text_bad" THEN [raised |-> FALSE, data |-> EmptyStore]
    ELSE IF f.kind = "bytes_bad" THEN [raised |-> TRUE, data |-> OtherJson]
    ELSE [raised |-> FALSE, data |-> f.data]

\* ensure_ascii=False writes the Cyrillic fallback sentence of
\* transcribe_audio as multi-byte UTF-8
HasNonAscii(data) ==
    \E k \in DOMAIN data.users :
        \E i \in 1..Len(data.users[k].records) :
            data.users[k].records[i].raw_text = FallbackSentence

\* how a write of DATA_FILE can end: written; open() refused and the file
\* kept; the write cut after open() truncated the file, between two
\* characters or inside a multi-byte one
SaveOutcomes == {"ok", "open_fails", "write_cut"}

\* a disk that can refuse a write but does not cut one
NoCut == {"ok", "open_fails"}

\* save_data that writes data["users"] instead of data
save_data_users_only(f, data) ==
    {[raised |-> FALSE, file |-> JsonFile("indent2", [data EXCEPT !.shape = "other"]),
      how |-> "ok"],
     [raised |-> TRUE, file |-> f, how |-> "open_fails"],
     [raised |-> TRUE, file |-> TextBadFile, how |-> "write_cut"]}

\* save_data: the outcomes [raised, file, how]
save_data(f, data) ==
    {[raised |-> FALSE, file |-> JsonFile("indent2", data), how |-> "ok"],
     [raised |-> TRUE, file |-> f, how |-> "open_fails"],
     [raised |-> TRUE, file |-> TextBadFile, how |-> "write_cut"]}
        \cup (IF HasNonAscii(data)
              THEN {[raised |-> TRUE, file |-> BytesBadFile, how |-> "write_cut"]}
              ELSE {})

\* the outcomes of a store operation on a disk whose writes end in one of
\* the ways of disk ("none": the operation did not write)
On(disk, outcomes) == {r \in outcomes : r.how \in disk \cup {"none"}}

\* get_or_create_user: the outcomes [raised, file, how]
get_or_create_user(f, u) ==
    LET ld == load_data(f)
        key == Str(u)
    IN  IF ld.raised \/ ld.data.shape # "store" THEN {[raised |-> TRUE, file |-> f, how |-> "none"]}
        ELSE IF key \notin DOMAIN ld.data.users
        THEN save_data(f,
                 [ld.data EXCEPT !.users =
                     (key :> [username |-> Username(u), records |-> <<>>]) @@ ld.data.users])
        ELSE {[raised |-> FALSE, file |-> f, how |-> "none"]}

\* save_voice_record: the outcomes [raised, file, how]; t1 and t2 are the two
\* readings of datetime.now()
save_voice_record(f, u, audio_path, raw_text, summary_text, t1, t2) ==
    LET ld == load_data(f)
        key == Str(u)
        record == [id |-> timestamp_id(t1),
                   audio_path |-> audio_path,
                   raw_text |-> raw_text,
                   summary_text |-> summary_text,
                   created_at |-> isoformat(t2)]
    IN  IF ld.raised \/ ld.data.shape # "store" \/ key \notin DOMAIN ld.data.users
        THEN {[raised |-> TRUE, file |-> f, how |-> "none"]}
        ELSE save_data(f, [ld.data EXCEPT !.users[key].records = Append(@, record)])

\* get_user_records: [raised, records]
get_user_records(f, u) ==
    LET ld == load_data(f)
        key == Str(u)
    IN  IF ld.raised \/ ld.data.shape # "store" THEN [raised |-> TRUE, records |-> <<>>]
        ELSE IF key \in DOMAIN ld.data.users
        THEN [raised |-> FALSE, records |-> ld.data.users[key].records]
        ELSE [raised |-> FALSE, records |-> <<>>]

\* position of the first record with this id, 0 when there is none
FirstIndex(records, record_id) ==
    IF \E i \in 1..Len(records) : records[i].id = record_id
    THEN CHOOSE i \in 1..Len(records) :
            /\ records[i].id = record_id
            /\ \A j \in 1..(i - 1) : records[j].id # record_id
    ELSE 0

NoRecord == [id |-> 0, audio_path |-> <<>>, raw_text |-> <<>>, summary_text |-> <<>>,
             created_at |-> <<>>]

\* get_record_by_id: [raised, found, rec]
get_record_by_id(f, u, record_id) ==
    LET gr == get_user_records(f, u)
        i == FirstIndex(gr.records, record_id)
    IN  IF gr.raised THEN [raised |-> TRUE, found |-> FALSE, rec |-> NoRecord]
        ELSE IF i = 0 THEN [raised |-> FALSE, found |-> FALSE, rec |-> NoRecord]
        ELSE [raised |-> FALSE, found |-> TRUE, rec |-> gr.records[i]]

\* update_summary_text with the new text appended to the summary instead of
\* replacing it
update_summary_text_merge(f, u, record_id, new_summary) ==
    LET ld == load_data(f)
        key == Str(u)
    IN  IF ld.raised \/ ld.data.shape # "store" \/ key \notin DOMAIN ld.data.users
        THEN {[raised |-> TRUE, file |-> f, how |-> "none"]}
        ELSE LET i == FirstIndex(ld.data.users[key].records, record_id)
             IN  save_data(f,
                     IF i = 0 THEN ld.data
                     ELSE [ld.data EXCEPT !.users[key].records[i].summary_text =
                                              @ \o new_summary])

\* update_summary_text: the outcomes [raised, file, how]
update_summary_text(f, u, record_id, new_summary) ==
    LET ld == load_data(f)
        key == Str(u)
    IN  IF ld.raised \/ ld.data.shape # "store" \/ key \notin DOMAIN ld.data.users
        THEN {[raised |-> TRUE, file |-> f, how |-> "none"]}
        ELSE LET i == FirstIndex(ld.data.users[key].records, record_id)
             IN  save_data(f,
                     IF i = 0 THEN ld.data
                     ELSE [ld.data EXCEPT !.users[key].records[i].summary_text = new_summary])

(***************************************************************************)
(* The listing of create_document_button                                   *)
(***************************************************************************)
\* sorted(records, key=created_at, reverse=True): a stable sort, records
\* with equal keys keep their order
RECURSIVE sorted_desc(_)
sorted_desc(records) ==
    IF records = <<>> THEN <<>>
    ELSE LET r == records[Len(records)]
             rest == sorted_desc(SubSeq(records, 1, Len(records) - 1))
             \* r goes behind every record that is not older than it
             p == Cardinality({i \in 1..Len(rest) :
                                  ~ StrLess(rest[i].created_at, r.created_at)})
         IN  SubSeq(rest, 1, p) \o <<r>> \o SubSeq(rest, p + 1, Len(rest))

\* strftime('%d.%m %H:%M') of fromisoformat(created_at): seconds are dropped
date_str(created_at) == <<"dd.mm HH:MM">>

\* the listing without the sort
listed_records_unsorted(records) == Prefix(records, ListLimit)

\* the records the for loop of create_document_button goes through
listed_records(records) == Prefix(sorted_desc(records), ListLimit)

\* the record buttons of the keyboard (the back button is not among them)
record_buttons(shown) ==
    [i \in 1..Len(shown) |->
        [text |-> date_str(shown[i].created_at)
                    \o Prefix(shown[i].summary_text, ButtonTextLen) \o Marker,
         callback_data |-> <<"select", Str(shown[i].id)>>]]

(***************************************************************************)
(* The report of generate_docx.  The template is valid, missing or         *)
(* malformed; the fallback document is written with doc.save, which can    *)
(* fail as any write.                                                      *)
(***************************************************************************)
TemplateStates == {"valid", "missing", "malformed"}

\* strftime("%d.%m.%Y %H:%M")
format_date(t) == <<"dd.mm.YYYY HH:MM">>

\* paragraph.text.replace("[DATE]", date) on a text of characters
replace_date(text, t) ==
    [i \in 1..Len(text) |-> IF text[i] = "[DATE]" THEN format_date(t)[1] ELSE text[i]]

NoDoc == [kind |-> "none", date |-> <<>>, body |-> <<>>]

\* generate_docx: the outcomes [raised, doc]; doc.save can fail in the try
\* branch (the except branch then writes the fallback document) and in the
\* except branch (the exception leaves generate_docx)
generate_docx(summary_text, tpl, t) ==
    LET fallback == {[raised |-> FALSE,
                      doc |-> [kind |-> "fallback", date |-> format_date(t),
                               body |-> summary_text]],
                     [raised |-> TRUE, doc |-> NoDoc]}
    IN  IF tpl = "valid"
        THEN {[raised |-> FALSE,
               doc |-> [kind |-> "template", date |-> format_date(t),
                        body |-> replace_date(summary_text, t)]]} \cup fallback
        ELSE fallback

(***************************************************************************)
(* Session context and the record of the last update                       *)
(***************************************************************************)
EmptyCtx == [bound |-> FALSE, selected_record_id |-> 0, current_summary |-> <<>>]

NoLast == [op |-> "none", user |-> 0, reply |-> "none", raised |-> FALSE,
           record_id |-> 0, text |-> <<>>, keyboard |-> <<>>, shown |-> <<>>,
           doc |-> NoDoc, result |-> <<>>, invoked |-> FALSE, failed |-> FALSE,
           updated |-> FALSE]

Answer(op, u, reply, raised) ==
    [NoLast EXCEPT !.op = op, !.user = u, !.reply = reply, !.raised = raised]

\* the records of u as the store operations see them (none when the file
\* cannot be read as a store)
RecordsOf(f, u) == get_user_records(f, u).records

\* number of records in the file
TotalRecords(f) ==
    LET d == load_data(f).data
        RECURSIVE Sum(_)
        Sum(S) == IF S = {} THEN 0
                  ELSE LET k == CHOOSE x \in S : TRUE
                       IN  Len(d.users[k].records) + Sum(S \ {k})
    IN  Sum(DOMAIN d.users)

\* no handler of the user is in flight; log is the list of the user as the
\* store operations that returned for the user have left it
IdleTask == [pc |-> "idle", record_id |-> 0, returns |-> END, log |-> <<>>]

InitFiles ==
    {AbsentFile, BytesBadFile, TextBadFile}
        \cup {JsonFile(fmt, d) : fmt \in {"indent2", "other"}, d \in {EmptyStore, OtherJson}}

Init ==
    /\ file \in InitFiles
    /\ user_data = [u \in Users |-> EmptyCtx]
    /\ conv = [u \in Users |-> END]
    /\ whisper_model = None
    /\ summarizer_pipeline = None
    /\ now = [sec |-> 1, us |-> 0]
    /\ last = NoLast
    /\ task = [u \in Users |-> IdleTask]

(***************************************************************************)
(* Handlers.  The dispatch of main() is in the guards: the handlers added  *)
(* before conv_handler take their updates in every conversation state;     *)
(* conv_handler takes select_<id> only outside a conversation              *)
(* (allow_reentry is left False), text and /cancel only in EDITING_SUMMARY.*)
(***************************************************************************)
\* start, for /start
start(u, disk) ==
    \E g \in On(disk, get_or_create_user(file, u)) :
        /\ file' = g.file
        /\ last' = IF g.raised THEN Answer("start", u, "none", TRUE)
                   ELSE Answer("start", u, "menu", FALSE)
        /\ UNCHANGED <<user_data, conv, whisper_model, summarizer_pipeline, now, task>>

\* back_to_start, for the callback "start"
back_to_start(u, disk) ==
    \E g \in On(disk, get_or_create_user(file, u)) :
        /\ file' = g.file
        /\ last' = IF g.raised THEN Answer("back_to_start", u, "none", TRUE)
                   ELSE Answer("back_to_start", u, "menu", FALSE)
        /\ UNCHANGED <<user_data, conv, whisper_model, summarizer_pipeline, now, task>>

\* record_voice_button
record_voice_button(u) ==
    /\ last' = Answer("record_voice_button", u, "send_voice", FALSE)
    /\ UNCHANGED <<file, user_data, conv, whisper_model, summarizer_pipeline, now, task>>

FileIds == {"f1"}

audio_path_of(file_id) == <<"audio", file_id, ".ogg">>

\* raw_text = transcribe_audio(audio_path); summary_text =
\* summarize_text(raw_text): the outcomes [w, s, raw_text, summary_text]
run_stages(heard, w, s) ==
    UNION {{[w |-> sm.w, s |-> sm.s, raw_text |-> tr.text, summary_text |-> sm.text]
               : sm \in summarize_text(tr.text, tr.w, tr.s)}
             : tr \in transcribe_audio(heard, w, s)}

\* handle_voice; heard is what the voice note holds, t1 and t2 are the two
\* readings of datetime.now() in save_voice_record, disk tells how the writes
\* of DATA_FILE can end
handle_voice(u, file_id, heard, t1, t2, disk) ==
    /\ TimeLeq(now, t1)
    /\ TimeLeq(t1, t2)
    /\ \E g \in On(disk, get_or_create_user(file, u)) :
        IF g.raised
        THEN /\ file' = g.file
             /\ last' = Answer("handle_voice", u, "none", TRUE)
             /\ UNCHANGED <<user_data, conv, whisper_model, summarizer_pipeline, now, task>>
        ELSE \/ \* get_file or download_to_drive fails
                /\ file' = g.file
                /\ last' = Answer("handle_voice", u, "error", FALSE)
                /\ UNCHANGED <<user_data, conv, whisper_model, summarizer_pipeline, now, task>>
             \/ \E st \in run_stages(heard, whisper_model, summarizer_pipeline) :
                \E sv \in On(disk, save_voice_record(g.file, u, audio_path_of(file_id),
                                            st.raw_text, st.summary_text, t1, t2)) :
                    /\ whisper_model' = st.w
                    /\ summarizer_pipeline' = st.s
                    /\ file' = sv.file
                    /\ now' = t2
                    /\ last' = [Answer("handle_voice", u,
                                       IF sv.raised THEN "error" ELSE "heard", FALSE)
                                  EXCEPT !.text = st.summary_text]
                    /\ UNCHANGED <<user_data, conv, task>>

\* create_document_button
create_document_button(u) ==
    LET gr == get_user_records(file, u)
        shown == listed_records(gr.records)
    IN  /\ last' = IF gr.raised THEN Answer("create_document_button", u, "none", TRUE)
                   ELSE IF gr.records = <<>>
                   THEN Answer("create_document_button", u, "no_records", FALSE)
                   ELSE [Answer("create_document_button", u, "choose", FALSE)
                           EXCEPT !.keyboard = record_buttons(shown), !.shown = shown]
        /\ UNCHANGED <<file, user_data, conv, whisper_model, summarizer_pipeline, now, task>>

\* the callback data a client can send: the buttons of any listing, old ones
\* included
SelectData == {<<"select", Str(n)>> : n \in {1, 2, 3}}

\* the not-found branch that goes on to EDITING_SUMMARY
record_not_found_goes_on(u, record_id) ==
    /\ last' = [Answer("select_record", u, "not_found", FALSE)
                  EXCEPT !.record_id = record_id]
    /\ conv' = [conv EXCEPT ![u] = EDITING_SUMMARY]
    /\ UNCHANGED user_data

\* select_record, "if not record": the answer and ConversationHandler.END
record_not_found(u, record_id) ==
    /\ last' = [Answer("select_record", u, "not_found", FALSE)
                  EXCEPT !.record_id = record_id]
    /\ conv' = [conv EXCEPT ![u] = END]
    /\ UNCHANGED user_data

\* select_record
select_record(u, data) ==
    /\ conv[u] = END
    /\ LET record_id == ParseInt(data[2])
           g == get_record_by_id(file, u, record_id)
       IN  IF g.raised
           THEN /\ last' = [Answer("select_record", u, "none", TRUE)
                              EXCEPT !.record_id = record_id]
                /\ UNCHANGED <<user_data, conv>>
           ELSE IF ~ g.found
           THEN record_not_found(u, record_id)
           ELSE /\ user_data' = [user_data EXCEPT ![u] =
                                    [bound |-> TRUE,
                                     selected_record_id |-> record_id,
                                     current_summary |-> g.rec.summary_text]]
                /\ conv' = [conv EXCEPT ![u] = EDITING_SUMMARY]
                /\ last' = [Answer("select_record", u, "selected", FALSE)
                              EXCEPT !.record_id = record_id,
                                     !.text = g.rec.summary_text]
    /\ UNCHANGED <<file, whisper_model, summarizer_pipeline, now, task>>

\* the texts a user sends while editing
EditTexts == {<<" ", "x", " ">>}

\* generate_docx, open(output_path, "rb") and reply_document: the outcomes
\* [raised, doc] over the states of the template; the delivery can fail
send_report(new_summary, t) ==
    UNION {generate_docx(new_summary, tpl, t) : tpl \in TemplateStates}
        \cup {[raised |-> TRUE, doc |-> NoDoc]}

\* edit_summary
edit_summary(u, text, disk) ==
    /\ conv[u] = EDITING_SUMMARY
    /\ LET new_summary == Strip(text)
           record_id == user_data[u].selected_record_id
           answer == [Answer("edit_summary", u, "none", TRUE)
                        EXCEPT !.record_id = record_id, !.text = new_summary]
       IN  IF ~ user_data[u].bound \/ record_id = 0
           THEN /\ last' = [answer EXCEPT !.reply = "error", !.raised = FALSE]
                /\ conv' = [conv EXCEPT ![u] = END]
                /\ UNCHANGED <<file, user_data>>
           ELSE \E up \in On(disk, update_summary_text(file, u, record_id, new_summary)) :
                   /\ file' = up.file
                   /\ IF up.raised
                      THEN /\ last' = answer
                           /\ UNCHANGED <<user_data, conv>>
                      ELSE \E gd \in send_report(new_summary, now) :
                              IF gd.raised
                              THEN /\ user_data' =
                                        [user_data EXCEPT ![u].current_summary = new_summary]
                                   /\ last' = [answer EXCEPT !.updated = TRUE]
                                   /\ UNCHANGED conv
                              ELSE /\ user_data' = [user_data EXCEPT ![u] = EmptyCtx]
                                   /\ conv' = [conv EXCEPT ![u] = END]
                                   /\ last' = [answer EXCEPT !.reply = "document",
                                                             !.raised = FALSE,
                                                             !.updated = TRUE,
                                                             !.doc = gd.doc]
    /\ UNCHANGED <<whisper_model, summarizer_pipeline, now, task>>

\* cancel that leaves the session context
cancel_keeps_context(u) ==
    /\ conv[u] = EDITING_SUMMARY
    /\ conv' = [conv EXCEPT ![u] = END]
    /\ last' = Answer("cancel", u, "cancelled", FALSE)
    /\ UNCHANGED <<file, user_data, whisper_model, summarizer_pipeline, now, task>>

\* cancel, for /cancel
cancel(u) ==
    /\ conv[u] = EDITING_SUMMARY
    /\ user_data' = [user_data EXCEPT ![u] = EmptyCtx]
    /\ conv' = [conv EXCEPT ![u] = END]
    /\ last' = Answer("cancel", u, "cancelled", FALSE)
    /\ UNCHANGED <<file, whisper_model, summarizer_pipeline, now, task>>

\* an update no handler of main() takes: select_<id> (data) sent during a
\* conversation, text or /cancel sent outside one
unhandled(u, kind, data) ==
    /\ \/ kind = "select" /\ conv[u] = EDITING_SUMMARY
       \/ kind \in {"text", "cancel"} /\ conv[u] = END
    /\ last' = [Answer("unhandled", u, "none", FALSE)
                  EXCEPT !.text = <<kind>>,
                         !.record_id = IF kind = "select" THEN ParseInt(data[2]) ELSE 0]
    /\ UNCHANGED <<file, user_data, conv, whisper_model, summarizer_pipeline, now, task>>

\* the voice notes of the conversation model
ShortVoices == {MkText(3, 0)}

\* the readings of a clock that is read once per voice note, in seconds
Seconds == {t \in Times : t.us = 0}

Next ==
    \/ \E u \in Users : start(u, NoCut)
    \/ \E u \in Users : back_to_start(u, NoCut)
    \/ \E u \in Users : record_voice_button(u)
    \/ \E u \in Users : create_document_button(u)
    \/ \E u \in Users, kind \in {"select", "text", "cancel"}, data \in SelectData :
          unhandled(u, kind, data)
    \/ \E u \in Users, file_id \in FileIds, heard \in ShortVoices, t \in Seconds :
          TotalRecords(file) < MaxRecs /\ handle_voice(u, file_id, heard, t, t, NoCut)
    \/ \E u \in Users, data \in SelectData : select_record(u, data)
    \/ \E u \in Users, text \in EditTexts : edit_summary(u, text, NoCut)
    \/ \E u \in Users : cancel(u)

Spec == Init /\ [][Next]_vars

(***************************************************************************)
(* The edit conversation alone: the handlers that write the store or the   *)
(* session (the other handlers of Next only answer, or create a user as    *)
(* handle_voice does).                                                     *)
(***************************************************************************)
NextEdit ==
    \/ \E u \in Users, file_id \in FileIds, heard \in ShortVoices, t \in Seconds :
          TotalRecords(file) < MaxRecs /\ handle_voice(u, file_id, heard, t, t, NoCut)
    \/ \E u \in Users, data \in SelectData : select_record(u, data)
    \/ \E u \in Users, text \in EditTexts : edit_summary(u, text, NoCut)
    \/ \E u \in Users : cancel(u)

SpecEdit == Init /\ [][NextEdit]_vars

(***************************************************************************)
(* The summarization stage alone: summarize_text on texts of every length  *)
(* up to MaxTextLen, in every state of the model handles.                  *)
(***************************************************************************)
StageTexts == {MkText(n, 0) : n \in 0..MaxTextLen}

summarize_call(text) ==
    /\ \E sm \in summarize_text(text, whisper_model, summarizer_pipeline) :
        /\ whisper_model' = sm.w
        /\ summarizer_pipeline' = sm.s
        /\ last' = [Answer("summarize_text", 0, "none", FALSE)
                      EXCEPT !.text = text, !.result = sm.text,
                             !.invoked = sm.invoked, !.failed = sm.failed]
    /\ UNCHANGED <<file, user_data, conv, now, task>>

NextStage == \E text \in StageTexts : summarize_call(text)

SpecStage == Init /\ [][NextStage]_vars

(***************************************************************************)
(* The listing alone: one user whose voice notes are stored without a      *)
(* failure, up to MaxListRecs of them, and create_document_button.  The    *)
(* wall clock of datetime.now() is local time and can be set back, so the  *)
(* readings come in any order.                                             *)
(***************************************************************************)
ListUsers == {7}

ListTimes == {[sec |-> 1, us |-> 1], [sec |-> 2, us |-> 0]}

\* the two store calls of handle_voice, neither failing
store_voice(u, file_id, raw_text, summary_text, t1, t2) ==
    /\ \E g \in get_or_create_user(file, u) :
        /\ ~ g.raised
        /\ \E sv \in save_voice_record(g.file, u, audio_path_of(file_id),
                                       raw_text, summary_text, t1, t2) :
            /\ ~ sv.raised
            /\ file' = sv.file
    /\ now' = t2
    /\ last' = [Answer("store_voice", u, "heard", FALSE) EXCEPT !.text = summary_text]
    /\ UNCHANGED <<user_data, conv, whisper_model, summarizer_pipeline, task>>

NextList ==
    \/ \E u \in ListUsers, file_id \in FileIds, t \in ListTimes :
          /\ Len(RecordsOf(file, u)) < MaxListRecs
          /\ store_voice(u, file_id, MkText(3, 0), MkText(3, 0), t, t)
    \/ \E u \in ListUsers : create_document_button(u)

SpecList == Init /\ [][NextList]_vars

(***************************************************************************)
(* The store and the pipeline alone: voice notes of every kind, and a      *)
(* load/save cycle that changes nothing (what update_summary_text does for *)
(* a record id it does not find).                                          *)
(***************************************************************************)
\* save_data(load_data())
resave ==
    LET ld == load_data(file)
    IN  /\ IF ld.raised
           THEN /\ last' = Answer("resave", 0, "none", TRUE)
                /\ UNCHANGED file
           ELSE \E sv \in save_data(file, ld.data) :
                   /\ file' = sv.file
                   /\ last' = Answer("resave", 0, "none", sv.raised)
        /\ UNCHANGED <<user_data, conv, whisper_model, summarizer_pipeline, now, task>>

NextStore ==
    \/ \E u \in Users, file_id \in FileIds, heard \in Voices, t \in Seconds :
          TotalRecords(file) < MaxRecs
              /\ handle_voice(u, file_id, heard, t, t, SaveOutcomes)
    \/ resave

SpecStore == Init /\ [][NextStore]_vars

(***************************************************************************)
(* The two stages and their model handles alone: transcribe_audio and      *)
(* summarize_text called in any order; both call load_models.              *)
(***************************************************************************)
\* transcribe_audio(audio_path); failed tells whether an earlier call of a
\* stage has left whisper_model at None
transcribe_call(heard) ==
    /\ \E tr \in transcribe_audio(heard, whisper_model, summarizer_pipeline) :
        /\ whisper_model' = tr.w
        /\ summarizer_pipeline' = tr.s
        /\ last' = [Answer("transcribe_audio", 0, "none", FALSE)
                      EXCEPT !.text = heard, !.result = tr.text,
                             !.failed = (last.op # "none" /\ whisper_model = None)]
    /\ UNCHANGED <<file, user_data, conv, now, task>>

NextModels ==
    \/ \E heard \in Voices : transcribe_call(heard)
    \/ \E text \in Voices : summarize_call(text)

SpecModels == Init /\ [][NextModels]_vars

(***************************************************************************)
(* The report alone: generate_docx on every state of the template, for     *)
(* texts with and without the placeholder of the date in them.             *)
(***************************************************************************)
\* the summaries handed to generate_docx; "[DATE]" is the placeholder typed
\* by the user
DocTexts == {<<"x">>, <<"x", " ", "y">>, <<"[DATE]">>, <<"x", "[DATE]">>}

\* generate_docx(summary_text, output_path) at the time t
generate_call(summary_text, tpl, t) ==
    /\ TimeLeq(now, t)
    /\ now' = t
    /\ \E gd \in generate_docx(summary_text, tpl, t) :
          last' = [Answer("generate_docx", 0, "none", gd.raised)
                     EXCEPT !.text = summary_text, !.doc = gd.doc, !.result = <<tpl>>]
    /\ UNCHANGED <<file, user_data, conv, whisper_model, summarizer_pipeline, task>>

NextDocx ==
    \E summary_text \in DocTexts, tpl \in TemplateStates, t \in Times :
        generate_call(summary_text, tpl, t)

SpecDocx == Init /\ [][NextDocx]_vars

(***************************************************************************)
(* The handlers of different users switching at their awaits.  A handler   *)
(* runs from one await to the next without a switch; the store operations  *)
(* and the two stages are synchronous calls, so each is inside one step.   *)
(* One handler per user is in flight (task[u].pc); task[u].log follows the *)
(* store operations that have returned for the user.                       *)
(***************************************************************************)
\* records with the summary of the first record with this id replaced
with_summary(records, record_id, new_summary) ==
    LET i == FirstIndex(records, record_id)
    IN  IF i = 0 THEN records ELSE [records EXCEPT ![i].summary_text = new_summary]

\* the task of u at another await
Go(u, pc, record_id, returns) ==
    [task EXCEPT ![u].pc = pc, ![u].record_id = record_id, ![u].returns = returns]

\* handle_voice up to await context.bot.get_file(file_id)
voice_begin(u, disk) ==
    /\ task[u].pc = "idle"
    /\ \E g \in On(disk, get_or_create_user(file, u)) :
        /\ file' = g.file
        /\ last' = Answer("voice_begin", u, "none", g.raised)
        /\ task' = IF g.raised THEN task ELSE Go(u, "voice_download", 0, END)
    /\ UNCHANGED <<user_data, conv, whisper_model, summarizer_pipeline, now>>

\* handle_voice from the download to its last answer: the download fails, or
\* the two stages run and save_voice_record is called
voice_store(u, file_id, heard, t1, t2, disk) ==
    /\ task[u].pc = "voice_download"
    /\ TimeLeq(now, t1)
    /\ TimeLeq(t1, t2)
    /\ \/ /\ last' = Answer("voice_store", u, "error", FALSE)
          /\ task' = Go(u, "idle", 0, END)
          /\ UNCHANGED <<file, whisper_model, summarizer_pipeline, now>>
       \/ \E st \in run_stages(heard, whisper_model, summarizer_pipeline) :
          \E sv \in On(disk, save_voice_record(file, u, audio_path_of(file_id),
                                      st.raw_text, st.summary_text, t1, t2)) :
              /\ whisper_model' = st.w
              /\ summarizer_pipeline' = st.s
              /\ file' = sv.file
              /\ now' = t2
              /\ last' = Answer("voice_store", u,
                                IF sv.raised THEN "error" ELSE "heard", FALSE)
              /\ task' = [Go(u, "idle", 0, END) EXCEPT ![u].log =
                             IF sv.raised THEN @
                             ELSE Append(@, RecordsOf(sv.file, u)[Len(RecordsOf(sv.file, u))])]
    /\ UNCHANGED <<user_data, conv>>

\* select_record up to await query.answer()
select_begin(u, data) ==
    /\ task[u].pc = "idle"
    /\ conv[u] = END
    /\ task' = Go(u, "select_answered", ParseInt(data[2]), END)
    /\ last' = Answer("select_begin", u, "none", FALSE)
    /\ UNCHANGED <<file, user_data, conv, whisper_model, summarizer_pipeline, now>>

\* select_record from get_record_by_id to await query.edit_message_text
select_lookup(u) ==
    /\ task[u].pc = "select_answered"
    /\ LET record_id == task[u].record_id
           g == get_record_by_id(file, u, record_id)
       IN  IF g.raised
           THEN /\ last' = Answer("select_lookup", u, "none", TRUE)
                /\ task' = Go(u, "idle", 0, END)
                /\ UNCHANGED user_data
           ELSE IF ~ g.found
           THEN /\ last' = Answer("select_lookup", u, "not_found", FALSE)
                /\ task' = Go(u, "returning", 0, END)
                /\ UNCHANGED user_data
           ELSE /\ user_data' = [user_data EXCEPT ![u] =
                                    [bound |-> TRUE,
                                     selected_record_id |-> record_id,
                                     current_summary |-> g.rec.summary_text]]
                /\ last' = Answer("select_lookup", u, "selected", FALSE)
                /\ task' = Go(u, "returning", 0, EDITING_SUMMARY)
    /\ UNCHANGED <<file, conv, whisper_model, summarizer_pipeline, now>>

\* the return of a handler of conv_handler after its last await
handler_return(u) ==
    /\ task[u].pc = "returning"
    /\ conv' = [conv EXCEPT ![u] = task[u].returns]
    /\ task' = Go(u, "idle", 0, END)
    /\ last' = Answer("handler_return", u, "none", FALSE)
    /\ UNCHANGED <<file, user_data, whisper_model, summarizer_pipeline, now>>

\* edit_summary up to await update.message.reply_document
edit_begin(u, text, disk) ==
    /\ task[u].pc = "idle"
    /\ conv[u] = EDITING_SUMMARY
    /\ LET new_summary == Strip(text)
           record_id == user_data[u].selected_record_id
           answer == Answer("edit_begin", u, "none", TRUE)
       IN  IF ~ user_data[u].bound \/ record_id = 0
           THEN /\ last' = [answer EXCEPT !.reply = "error", !.raised = FALSE]
                /\ task' = Go(u, "returning", 0, END)
                /\ UNCHANGED <<file, user_data>>
           ELSE \E up \in On(disk, update_summary_text(file, u, record_id, new_summary)) :
                   /\ file' = up.file
                   /\ IF up.raised
                      THEN /\ last' = answer
                           /\ UNCHANGED <<user_data, task>>
                      ELSE /\ user_data' =
                                [user_data EXCEPT ![u].current_summary = new_summary]
                           /\ \E raised \in {gd.raised : gd \in send_report(new_summary, now)} :
                                /\ last' = [answer EXCEPT !.updated = TRUE,
                                                          !.raised = raised]
                                /\ task' =
                                     [Go(u, IF raised THEN "idle" ELSE "edit_sending",
                                         0, END)
                                        EXCEPT ![u].log =
                                            with_summary(@, record_id, new_summary)]
    /\ UNCHANGED <<conv, whisper_model, summarizer_pipeline, now>>

\* edit_summary from context.user_data.clear() to await reply_text
edit_sent(u) ==
    /\ task[u].pc = "edit_sending"
    /\ user_data' = [user_data EXCEPT ![u] = EmptyCtx]
    /\ task' = Go(u, "returning", 0, END)
    /\ last' = Answer("edit_sent", u, "document", FALSE)
    /\ UNCHANGED <<file, conv, whisper_model, summarizer_pipeline, now>>

\* cancel up to await update.message.reply_text
cancel_begin(u) ==
    /\ task[u].pc = "idle"
    /\ conv[u] = EDITING_SUMMARY
    /\ user_data' = [user_data EXCEPT ![u] = EmptyCtx]
    /\ task' = Go(u, "returning", 0, END)
    /\ last' = Answer("cancel_begin", u, "cancelled", FALSE)
    /\ UNCHANGED <<file, conv, whisper_model, summarizer_pipeline, now>>

\* number of records appended by the handlers so far
Appended ==
    LET RECURSIVE Sum(_)
        Sum(S) == IF S = {} THEN 0
                  ELSE LET u == CHOOSE x \in S : TRUE
                       IN  Len(task[u].log) + Sum(S \ {u})
    IN  Sum(Users)

NextInter ==
    \/ \E u \in Users : Appended < MaxRecs /\ voice_begin(u, SaveOutcomes)
    \/ \E u \in Users, file_id \in FileIds, heard \in ShortVoices, t \in Seconds :
          Appended < MaxRecs /\ voice_store(u, file_id, heard, t, t, SaveOutcomes)
    \/ \E u \in Users, data \in SelectData : select_begin(u, data)
    \/ \E u \in Users : select_lookup(u)
    \/ \E u \in Users : handler_return(u)
    \/ \E u \in Users, text \in EditTexts : edit_begin(u, text, SaveOutcomes)
    \/ \E u \in Users : edit_sent(u)
    \/ \E u \in Users : cancel_begin(u)

SpecInter == Init /\ [][NextInter]_vars

(***************************************************************************)
(* Properties                                                              *)
(***************************************************************************)
\* the file of the outcome that did not raise
Written(outcomes) == (CHOOSE r \in outcomes : ~ r.raised).file

\* the record ids in the list of u
IdsOf(f, u) == {RecordsOf(f, u)[i].id : i \in 1..Len(RecordsOf(f, u))}

\* C1: when update_summary_text(user, id, text) has returned for an id that
\* is in the user's list, get_record_by_id(user, id) finds a record whose
\* summary_text is text; the same store results whatever the summary was
\* before, and replacing again with the same text changes nothing.
C1_ReplaceThenGet ==
    [][(/\ last'.op = "edit_summary"
        /\ last'.updated
        /\ last'.record_id \in IdsOf(file, last'.user))
       => LET u == last'.user
              id == last'.record_id
              text == last'.text
              g == get_record_by_id(file', u, id)
          IN  /\ g.found
              /\ g.rec.summary_text = text
              /\ \A prior \in {<<>>, <<"p">>, text} :
                    Written(update_summary_text(
                        Written(update_summary_text(file, u, id, prior)), u, id, text)) = file'
              /\ Written(update_summary_text(file', u, id, text)) = file'
      ]_vars

\* C1 happens: a summary was replaced in a list of two records
C1_Witness ==
    /\ last.op = "edit_summary"
    /\ last.updated
    /\ Len(RecordsOf(file, last.user)) = 2
    /\ get_record_by_id(file, last.user, last.record_id).found
    /\ get_record_by_id(file, last.user, last.record_id).rec.summary_text = <<"x">>
    /\ get_record_by_id(file, last.user, last.record_id).rec.raw_text # <<"x">>

\* C2: a voice note that handle_voice handles to the end adds exactly one
\* record to the list of its user, behind the records that were there, and
\* the raw_text and the summary_text of that record are not empty.
C2_VoiceAddsNonEmptyRecord ==
    [][(last'.op = "handle_voice" /\ last'.reply = "heard")
       => LET before == RecordsOf(file, last'.user)
              after == RecordsOf(file', last'.user)
          IN  /\ Len(after) = Len(before) + 1
              /\ SubSeq(after, 1, Len(before)) = before
              /\ after[Len(after)].raw_text # <<>>
              /\ after[Len(after)].summary_text # <<>>
      ]_vars

\* C3: select_record for a record id that get_record_by_id does not find in
\* the list of the user answers "not found", ends the conversation of the
\* user, does not raise and changes neither the file nor any session context.
C3_SelectMissingRecord ==
    [][(/\ last'.op = "select_record"
        /\ ~ get_record_by_id(file, last'.user, last'.record_id).raised
        /\ ~ get_record_by_id(file, last'.user, last'.record_id).found)
       => /\ last'.reply = "not_found"
          /\ ~ last'.raised
          /\ conv'[last'.user] = END
          /\ file' = file
          /\ user_data' = user_data
          /\ \A v \in Users \ {last'.user} : conv'[v] = conv[v]
      ]_vars

\* C3 happens: a user who has records selects an id that is not among them
C3_Witness ==
    /\ last.op = "select_record"
    /\ last.reply = "not_found"
    /\ RecordsOf(file, last.user) # <<>>
    /\ last.record_id \notin IdsOf(file, last.user)

\* the time an isoformat string stands for
fromisoformat(c) == [sec |-> c[1], us |-> IF Len(c) > 1 THEN c[2] ELSE 0]

\* r was created before q
Older(r, q) ==
    /\ TimeLeq(fromisoformat(r.created_at), fromisoformat(q.created_at))
    /\ r.created_at # q.created_at

\* how many records of the sequence were created at c
CreatedAt(records, c) == Cardinality({i \in 1..Len(records) : records[i].created_at = c})

\* C4: the listing of create_document_button has at most 10 record buttons,
\* one for each listed record and in the order of the listed records; the
\* listed records are records of the user, in descending order of created_at,
\* and no listed record is older than a record that is left out.
C4_ListingTenMostRecent ==
    (last.op = "create_document_button" /\ last.reply = "choose")
    => LET all == RecordsOf(file, last.user)
           shown == last.shown
       IN  /\ Len(last.keyboard) <= ListLimit
           /\ Len(last.keyboard) = Len(shown)
           /\ Len(shown) = Min(ListLimit, Len(all))
           /\ \A i \in 1..Len(shown) :
                 last.keyboard[i].callback_data = <<"select", Str(shown[i].id)>>
           /\ \A i \in 1..Len(shown) :
                 CreatedAt(shown, shown[i].created_at) <= CreatedAt(all, shown[i].created_at)
           /\ \A i \in 1..Len(shown), j \in 1..Len(shown) :
                 i < j => ~ Older(shown[i], shown[j])
           /\ \A j \in 1..Len(all) :
                 CreatedAt(shown, all[j].created_at) < CreatedAt(all, all[j].created_at)
                     => \A i \in 1..Len(shown) : ~ Older(shown[i], all[j])

\* C4 happens: eleven records that were not stored in the order of their
\* created_at, ten of them listed
C4_Witness ==
    /\ last.op = "create_document_button"
    /\ Len(RecordsOf(file, last.user)) = ListLimit + 1
    /\ Len(last.keyboard) = ListLimit
    /\ Older(RecordsOf(file, last.user)[2], RecordsOf(file, last.user)[1])
    /\ Older(RecordsOf(file, last.user)[2], RecordsOf(file, last.user)[ListLimit + 1])

\* C5: load_data does not raise whatever DATA_FILE holds, gives the empty
\* mapping for a file that is absent or cannot be parsed, and what it gives
\* is a mapping with the users, so that get_user_records does not raise.
C5_LoadNeverFails ==
    /\ ~ load_data(file).raised
    /\ file.kind \in {"absent", "bytes_bad", "text_bad"} => load_data(file).data = EmptyStore
    /\ load_data(file).data.shape = "store"
    /\ \A u \in Users : ~ get_user_records(file, u).raised

C7_ShortTextUnchanged ==
    (last.op = "summarize_text" /\ Len(last.text) < ShortTextLimit)
    => /\ last.result = last.text
       /\ ~ last.invoked
       /\ ~ last.failed

\* C7 happens: a text of 49 characters summarized with the summarizer loaded
C7_Witness ==
    /\ last.op = "summarize_text"
    /\ Len(last.text) = ShortTextLimit - 1
    /\ summarizer_pipeline = Loaded
    /\ last.result = last.text

\* C8 as claimed: for a text of at least 50 characters, when the summarizer
\* is not there or fails, summarize_text returns the first 100 characters of
\* the text followed by the marker.
C8_FallbackAlwaysMarked ==
    (last.op = "summarize_text" /\ Len(last.text) >= ShortTextLimit /\ last.failed)
    => /\ last.result = Prefix(last.text, TruncateLen) \o Marker
       /\ last.result # <<>>

\* C8 amended: for a text of more than 100 characters, when the summarizer
\* is not there or fails, summarize_text returns the first 100 characters of
\* the text followed by the marker; for a text of 50 to 100 characters it
\* returns the text unchanged; the result is not empty.
C8_FallbackMarkedWhenLong ==
    (last.op = "summarize_text" /\ Len(last.text) >= ShortTextLimit /\ last.failed)
    => /\ Len(last.text) > TruncateLen
            => /\ Len(last.result) = TruncateLen + Len(Marker)
               /\ \A i \in 1..TruncateLen : last.result[i] = last.text[i]
               /\ \A i \in 1..Len(Marker) : last.result[TruncateLen + i] = Marker[i]
       /\ Len(last.text) <= TruncateLen => last.result = last.text
       /\ last.result # <<>>

\* C8 happens: the summarizer was called on a text of more than 100
\* characters and failed
C8_Witness ==
    /\ last.op = "summarize_text"
    /\ last.failed
    /\ last.invoked
    /\ Len(last.text) > TruncateLen
    /\ Len(last.result) = TruncateLen + Len(Marker)

\* C9: a text handled by edit_summary with a record id bound in the session
\* context ends with the summary replaced, the document made, the context
\* cleared and the conversation ended.
C9_SubmitEndsSession ==
    [][(/\ last'.op = "edit_summary"
        /\ user_data[last'.user].bound
        /\ user_data[last'.user].selected_record_id # 0)
       => /\ last'.updated
          /\ last'.doc.kind # "none"
          /\ user_data'[last'.user] = EmptyCtx
          /\ conv'[last'.user] = END
      ]_vars

\* C10: cancel clears the session context of the user, ends the conversation
\* and leaves the file as it is.
C10_CancelKeepsStore ==
    [][last'.op = "cancel"
       => /\ conv[last'.user] = EDITING_SUMMARY
          /\ user_data'[last'.user] = EmptyCtx
          /\ conv'[last'.user] = END
          /\ file' = file
      ]_vars

\* C10 happens: a user who had selected a record cancelled
C10_Witness ==
    /\ last.op = "cancel"
    /\ RecordsOf(file, last.user) # <<>>
    /\ conv[last.user] = END
    /\ user_data[last.user] = EmptyCtx

\* C11: back_to_start, taken in any conversation state, leaves the records of
\* every user as they are (get_or_create_user may add the entry of a user who
\* had none), clears the session context of the user and ends the
\* conversation.
C11_NavigationClears ==
    [][last'.op = "back_to_start"
       => /\ \A v \in Users : RecordsOf(file', v) = RecordsOf(file, v)
          /\ user_data'[last'.user] = EmptyCtx
          /\ conv'[last'.user] = END
      ]_vars

\* the store can be read: load_data returns the mapping with the users
Readable(f) == ~ load_data(f).raised /\ load_data(f).data.shape = "store"

\* C12: when handle_voice on a store that can be read does not get to its
\* last answer, the user is told of the error and the store holds the users
\* and the records it held before.
C12_FailedVoiceKeepsStore ==
    [][(/\ last'.op = "handle_voice"
        /\ last'.reply # "heard"
        /\ Readable(file))
       => /\ last'.reply = "error"
          /\ Readable(file')
          /\ load_data(file').data = load_data(file).data
      ]_vars

\* C14: no step changes the id, the audio_path, the raw_text or the
\* created_at of a record that stays in its list; the summary_text of a
\* record changes only in edit_summary of its user for its id, and then it
\* is the text that was sent, stripped.
C14_OnlySummaryChanges ==
    [][file' # file => \A u \in Users :
          LET before == RecordsOf(file, u)
              after == RecordsOf(file', u)
          IN  \A i \in 1..Min(Len(before), Len(after)) :
                 /\ after[i].id = before[i].id
                 /\ after[i].audio_path = before[i].audio_path
                 /\ after[i].raw_text = before[i].raw_text
                 /\ after[i].created_at = before[i].created_at
                 /\ after[i].summary_text # before[i].summary_text
                       => /\ last'.op = "edit_summary"
                          /\ last'.user = u
                          /\ last'.record_id = before[i].id
                          /\ after[i].summary_text = last'.text
      ]_vars

\* C14 happens: the summary of the second of two records was replaced, the
\* record keeps what the voice note gave it and the first record its summary
C14_Witness ==
    /\ last.op = "edit_summary"
    /\ last.updated
    /\ Len(RecordsOf(file, last.user)) = 2
    /\ RecordsOf(file, last.user)[2].id = last.record_id
    /\ RecordsOf(file, last.user)[2].summary_text = last.text
    /\ RecordsOf(file, last.user)[2].raw_text \in {MkText(3, 0), FallbackSentence}
    /\ RecordsOf(file, last.user)[1].summary_text = RecordsOf(file, last.user)[1].raw_text

\* the users of the store (none when the file cannot be read as a store)
UsersOf(f) == IF Readable(f) THEN DOMAIN load_data(f).data.users ELSE {}

\* C15: no step removes a user from the store or a record from a list: a
\* user of the store stays one, and the records of a user stay in their
\* places.
C15_NothingRemoved ==
    [][\A u \in Users :
          Str(u) \in UsersOf(file)
              => /\ Str(u) \in UsersOf(file')
                 /\ Len(RecordsOf(file', u)) >= Len(RecordsOf(file, u))
                 /\ \A i \in 1..Len(RecordsOf(file, u)) :
                       RecordsOf(file', u)[i].id = RecordsOf(file, u)[i].id
      ]_vars

\* C19: when edit_summary has replaced a summary, every record of the user
\* that carries the id of the pressed button (each of them has such a button
\* in the listing) has the new summary, and the other records of the user
\* are as they were.
C19_SelectedIsReplaced ==
    [][(last'.op = "edit_summary" /\ last'.updated)
       => LET before == RecordsOf(file, last'.user)
              after == RecordsOf(file', last'.user)
          IN  /\ Len(after) = Len(before)
              /\ \A i \in 1..Len(before) :
                    IF before[i].id = last'.record_id
                    THEN after[i].summary_text = last'.text
                    ELSE after[i] = before[i]
      ]_vars

\* C20: a step taken for one user leaves the entry of every other user of
\* the store as it is; a listing shows records of its user only, and a
\* selection binds an id and a summary of a record of its user.
C20_UserIsolation ==
    [][/\ \A v \in Users \ {last'.user} :
             Str(v) \in UsersOf(file)
                 => /\ Str(v) \in UsersOf(file')
                    /\ load_data(file').data.users[Str(v)] = load_data(file).data.users[Str(v)]
       /\ (last'.op = "create_document_button" /\ last'.reply = "choose")
             => \A i \in 1..Len(last'.shown) :
                   \E j \in 1..Len(RecordsOf(file, last'.user)) :
                      last'.shown[i] = RecordsOf(file, last'.user)[j]
       /\ (last'.op = "select_record" /\ last'.reply = "selected")
             => \E j \in 1..Len(RecordsOf(file, last'.user)) :
                   /\ RecordsOf(file, last'.user)[j].id = user_data'[last'.user].selected_record_id
                   /\ RecordsOf(file, last'.user)[j].summary_text
                          = user_data'[last'.user].current_summary
      ]_vars

\* C17: when select_<r2> arrives for a user whose conversation is in
\* EDITING_SUMMARY for another record and r2 is a record of the user, the
\* session context becomes (r2, the summary of r2) and the conversation
\* stays in EDITING_SUMMARY, so that the next text replaces the summary of r2.
C17_SecondSelectionOverwrites ==
    [][(/\ last'.op \in {"select_record", "unhandled"}
        /\ last'.op = "unhandled" => last'.text = <<"select">>
        /\ conv[last'.user] = EDITING_SUMMARY
        /\ user_data[last'.user].selected_record_id # last'.record_id
        /\ get_record_by_id(file, last'.user, last'.record_id).found)
       => /\ user_data'[last'.user] =
                [bound |-> TRUE,
                 selected_record_id |-> last'.record_id,
                 current_summary |->
                     get_record_by_id(file, last'.user, last'.record_id).rec.summary_text]
          /\ conv'[last'.user] = EDITING_SUMMARY
      ]_vars

\* text is in body, as a run of consecutive characters
Contains(body, text) ==
    \E i \in 1..(Len(body) - Len(text) + 1) : SubSeq(body, i, i + Len(text) - 1) = text

\* C16: whatever the state of the template, generate_docx does not raise and
\* writes a document that holds the summary text it was given and the date
\* in the format day.month.year hour:minute.
C16_DocxNeverFails ==
    last.op = "generate_docx"
    => /\ ~ last.raised
       /\ last.doc.kind # "none"
       /\ last.doc.date = format_date(now)
       /\ Contains(last.doc.body, last.text)

\* C18 as claimed: once a call of a stage has left whisper_model at None,
\* the next transcribe_audio returns the fallback sentence.
C18_FailedStaysFailed ==
    [][(/\ last.op # "none"
        /\ whisper_model = None
        /\ last'.op = "transcribe_audio")
       => last'.result = FallbackSentence
      ]_vars

\* C18 amended: transcribe_audio loads the model again when the handle is
\* None; it returns the fallback sentence when the handle is still None
\* after that, the transcript or the fallback sentence when it is loaded,
\* and does not raise; a loaded handle stays loaded.
C18_FallbackWhileNotLoaded ==
    [][last'.op = "transcribe_audio"
       => /\ ~ last'.raised
          /\ last'.result \in {last'.text, FallbackSentence}
          /\ whisper_model' = None => last'.result = FallbackSentence
          /\ whisper_model = Loaded => whisper_model' = Loaded
      ]_vars

\* C18 happens: after a load of the model that failed, a later
\* transcribe_audio loaded it and returned the transcript
C18_Witness ==
    /\ last.op = "transcribe_audio"
    /\ last.failed
    /\ whisper_model = Loaded
    /\ last.result = last.text
    /\ last.result # FallbackSentence
    /\ last.result # <<>>

\* C13: with the handlers of the two users switching at their awaits, the
\* list of each user in the store is what the store operations that have
\* returned for that user have made of it: every record that
\* save_voice_record appended and every summary that update_summary_text
\* replaced is there.
C13_NoLostUpdate ==
    \A u \in Users : RecordsOf(file, u) = task[u].log

====
